---- MODULE Spec2Model ----
(***************************************************************************)
(* Model of edugesture: the hand-gesture classification engine            *)
(* (GestureDetector._is_finger_extended, _classify_gesture and the         *)
(* cooldown gate of detect_gesture, src/gesture_detector.py), the PDF      *)
(* handler (src/pdf_handler.py), and the gesture handlers, the main loop   *)
(* and the generation threads of EduGesture (src/main.py).                 *)
(*                                                                         *)
(* Units.  Landmark coordinates are integers in units of 1/25 of the       *)
(* normalized image size (x = 10 stands for 0.4), so the OK threshold 0.08 *)
(* is 2 units.  Every comparison of the code between norms, ratios and     *)
(* cosines is modelled by the equivalent comparison between integers       *)
(* (squares cross-multiplied), i.e. in exact arithmetic.  Time is in       *)
(* tenths of a second, confidences are in hundredths (0.85 = 85).          *)
(***************************************************************************)
EXTENDS Integers, Sequences, FiniteSets, TLC

VARIABLES
    clock,              \* the value time.time() returns now
    gesture_timestamp,  \* self.gesture_timestamp
    last_gesture,       \* self.last_gesture
    log,                \* rows written by log_gesture (the header row left out)
    ret,                \* what the last detect_gesture call returned
    raw,                \* (gesture, confidence) of line 82 in the last call
    handDetected,       \* results.multi_hand_landmarks of the last call
    now,                \* current_time of line 85 in the last call
    op,                 \* the last step taken: "init", "tick", "detect",
                        \* "classify", or "app" for a step of the application
    emitted,            \* history: <<time, gesture, confidence>> of every call
                        \* that returned a gesture, as the caller saw it
    landmarks,          \* the landmarks last handed over: the argument of
                        \* _classify_gesture on its own, or the last frame's hand
    cres,               \* what _classify_gesture on its own produced
    rin,                \* the flags and measures handed to the rule chain on its own
    ext,                \* argument and result of _is_finger_extended on its own
    thr,                \* the threads inside detect_gesture: position and locals
    emitBy,             \* history: who emitted, and what it had seen when it checked
    ui,                 \* UIManager: current_view, show_exit_modal
    app,                \* EduGesture: running, ollama_running, the position of
                        \* run(), the number of threads started, why it ended
    pdf,                \* PDFHandler: pdf_files, current_file_index, current_pdf,
                        \* current_page, total_pages
    workers,            \* the generate_with_ollama threads: position and locals
    disk,               \* the .pdf files in the folder Lectii/
    written,            \* history: <<file named after, file the text came from>>
                        \* of every create_text_files call
    handled,            \* history: <<gesture, view, time>> of every gesture
                        \* handed to handle_gesture
    call                \* the last call made: its name and what it returned
                        \* (PDFHandler on its own), or what the handler of the
                        \* last gesture did to the modal or the open document

vars == <<clock, gesture_timestamp, last_gesture, log, ret, raw, handDetected,
          now, op, emitted, landmarks, cres, rin, ext, thr, emitBy,
          ui, app, pdf, workers, disk, written, handled, call>>

\* the variables that only the runs of a single function or of two threads use
auxVars == <<rin, ext, thr, emitBy>>
\* the variables of the application around the detector
appVars == <<ui, app, pdf, workers, disk, written, handled, call>>

None == "None"
\* results.multi_hand_landmarks when no hand is in the frame
NoHand == <<>>
Labels == {"right", "left", "two_fingers", "ok", "palm"}

\* self.gesture_cooldown = 0.8 seconds, in tenths of a second
GestureCooldown == 8

\* the clock is followed up to this value (tenths of a second)
MaxTime == 18

\* the time that passes between two looks at the clock, in tenths of a second
TimeStep == 4

----------------------------------------------------------------------------
(* Planar geometry: the code slices every point with [:2].                 *)

Sub2(p, q) == <<p[1] - q[1], p[2] - q[2]>>
NormSq(v) == v[1] * v[1] + v[2] * v[2]
Dot(a, b) == a[1] * b[1] + a[2] * b[2]

\* landmarks[k] of a Python sequence: IndexError when k is past the end
IndexOk(lms, k) == k < Len(lms)
Lm(lms, k) == lms[k + 1]

\* the (ip_idx, mcp_idx) table of _is_finger_extended
FingerTips == {4, 8, 12, 16, 20}
\* IpIdxPip takes the joint two below the tip (the pip joint of a finger)
IpIdxPip(finger_tip_idx) == finger_tip_idx - 2

IpIdx(finger_tip_idx) ==
    CASE finger_tip_idx = 4 -> 3
      [] finger_tip_idx = 8 -> 7
      [] finger_tip_idx = 12 -> 11
      [] finger_tip_idx = 16 -> 15
      [] finger_tip_idx = 20 -> 19
McpIdx(finger_tip_idx) ==
    CASE finger_tip_idx = 4 -> 2
      [] finger_tip_idx = 8 -> 5
      [] finger_tip_idx = 12 -> 9
      [] finger_tip_idx = 16 -> 13
      [] finger_tip_idx = 20 -> 17

\* tip_to_wrist > ip_to_wrist * 0.9, both norms being >= 0.
\* distance_criterion_flipped has the comparison the other way round.
distance_criterion_flipped(tip, ip, wrist) ==
    100 * NormSq(Sub2(tip, wrist)) < 81 * NormSq(Sub2(ip, wrist))

distance_criterion(tip, ip, wrist) ==
    100 * NormSq(Sub2(tip, wrist)) > 81 * NormSq(Sub2(ip, wrist))

\* dot(unit(wrist_to_mcp), unit(mcp_to_tip)) > 0.3, where a vector of norm 0
\* is left as it is (the zero vector), which makes the dot product 0.
\* direction_criterion_lenient accepts every dot product >= 0.
direction_criterion_lenient(tip, mcp, wrist) ==
    Dot(Sub2(mcp, wrist), Sub2(tip, mcp)) >= 0

direction_criterion(tip, mcp, wrist) ==
    LET wrist_to_mcp == Sub2(mcp, wrist)
        mcp_to_tip == Sub2(tip, mcp)
        d == Dot(wrist_to_mcp, mcp_to_tip)
    IN  /\ NormSq(wrist_to_mcp) > 0
        /\ NormSq(mcp_to_tip) > 0
        /\ d > 0
        /\ 100 * d * d > 9 * NormSq(wrist_to_mcp) * NormSq(mcp_to_tip)

is_finger_extended(lms, finger_tip_idx) ==
    IF finger_tip_idx \notin FingerTips
    THEN FALSE
    ELSE LET tip == Lm(lms, finger_tip_idx)
             ip == Lm(lms, IpIdx(finger_tip_idx))
             mcp == Lm(lms, McpIdx(finger_tip_idx))
             wrist == Lm(lms, 0)
         IN  distance_criterion(tip, ip, wrist) /\ direction_criterion(tip, mcp, wrist)

\* direction[0] > 0.5 and direction[0] < -0.5 for the direction wrist -> index
\* tip divided by its norm when that norm is > 0.  DirXRightMirrored takes the
\* x axis of the unflipped camera image.
DirXRightMirrored(index_tip, wrist) ==
    LET direction == Sub2(wrist, index_tip)
    IN  direction[1] > 0 /\ 4 * direction[1] * direction[1] > NormSq(direction)

DirXRight(index_tip, wrist) ==
    LET direction == Sub2(index_tip, wrist)
    IN  direction[1] > 0 /\ 4 * direction[1] * direction[1] > NormSq(direction)
DirXLeft(index_tip, wrist) ==
    LET direction == Sub2(index_tip, wrist)
    IN  direction[1] < 0 /\ 4 * direction[1] * direction[1] > NormSq(direction)

\* thumb_index_dist < 0.08, i.e. less than 2 units of 1/25
ThumbIndexClose(thumb_tip, index_tip) == NormSq(Sub2(thumb_tip, index_tip)) < 2 * 2

Result(g, c) == [gesture |-> g, confidence |-> c, raised |-> FALSE]
NoGesture == Result(None, 0)
\* an exception leaves the function: no value is returned
Raised == [gesture |-> None, confidence |-> 0, raised |-> TRUE]

\* The rule chain of _classify_gesture (lines 123-148) on the five extension
\* flags, the two direction tests and the thumb/index test.  The variant
\* RulesNoDefault lacks the final `return None, 0`: the function then returns
\* a bare None and the caller's tuple unpacking raises.
RulesNoDefault(thumb_extended, index_extended, middle_extended, ring_extended, pinky_extended, dirRight, dirLeft, close) ==
    IF index_extended /\ ~middle_extended /\ ~ring_extended /\ ~pinky_extended /\ dirRight
    THEN Result("right", 85)
    ELSE IF index_extended /\ ~middle_extended /\ ~ring_extended /\ ~pinky_extended /\ dirLeft
    THEN Result("left", 85)
    ELSE IF index_extended /\ middle_extended /\ ~ring_extended /\ ~pinky_extended
    THEN Result("two_fingers", 90)
    ELSE IF middle_extended /\ ring_extended /\ pinky_extended /\ close
    THEN Result("ok", 85)
    ELSE IF thumb_extended /\ index_extended /\ middle_extended /\ ring_extended
            /\ pinky_extended
    THEN Result("palm", 90)
    ELSE Raised

\* The guards of the five rules, as the code writes them.
\* lines 124-125 and 129-130: index alone among index, middle, ring, pinky.
\* GuardRightIndexOnly forgets the three `not` tests.
GuardRightIndexOnly(index_extended, middle_extended, ring_extended, pinky_extended, dirRight) ==
    index_extended /\ dirRight

GuardRight(index_extended, middle_extended, ring_extended, pinky_extended, dirRight) ==
    index_extended /\ ~middle_extended /\ ~ring_extended /\ ~pinky_extended /\ dirRight

GuardLeft(index_extended, middle_extended, ring_extended, pinky_extended, dirLeft) ==
    index_extended /\ ~middle_extended /\ ~ring_extended /\ ~pinky_extended /\ dirLeft

\* line 134.  GuardTwoFingersLoose forgets the ring and pinky tests.
GuardTwoFingersLoose(index_extended, middle_extended, ring_extended, pinky_extended) ==
    index_extended /\ middle_extended

GuardTwoFingers(index_extended, middle_extended, ring_extended, pinky_extended) ==
    index_extended /\ middle_extended /\ ~ring_extended /\ ~pinky_extended

\* lines 138-140
GuardOk(middle_extended, ring_extended, pinky_extended, close) ==
    middle_extended /\ ring_extended /\ pinky_extended /\ close

\* line 144.  GuardPalmFourFingers leaves the thumb out of the list.
GuardPalmFourFingers(thumb_extended, index_extended, middle_extended, ring_extended, pinky_extended) ==
    index_extended /\ middle_extended /\ ring_extended /\ pinky_extended

GuardPalm(thumb_extended, index_extended, middle_extended, ring_extended, pinky_extended) ==
    thumb_extended /\ index_extended /\ middle_extended /\ ring_extended /\ pinky_extended

\* RulesPalmFirst tests the open palm before the OK sign.
RulesPalmFirst(thumb_extended, index_extended, middle_extended, ring_extended, pinky_extended, dirRight, dirLeft, close) ==
    IF GuardRight(index_extended, middle_extended, ring_extended, pinky_extended, dirRight)
    THEN Result("right", 85)
    ELSE IF GuardLeft(index_extended, middle_extended, ring_extended, pinky_extended, dirLeft)
    THEN Result("left", 85)
    ELSE IF GuardTwoFingers(index_extended, middle_extended, ring_extended, pinky_extended)
    THEN Result("two_fingers", 90)
    ELSE IF GuardPalm(thumb_extended, index_extended, middle_extended, ring_extended, pinky_extended)
    THEN Result("palm", 90)
    ELSE IF GuardOk(middle_extended, ring_extended, pinky_extended, close)
    THEN Result("ok", 85)
    ELSE NoGesture

Rules(thumb_extended, index_extended, middle_extended, ring_extended, pinky_extended, dirRight, dirLeft, close) ==
    IF GuardRight(index_extended, middle_extended, ring_extended, pinky_extended, dirRight)
    THEN Result("right", 85)
    ELSE IF GuardLeft(index_extended, middle_extended, ring_extended, pinky_extended, dirLeft)
    THEN Result("left", 85)
    ELSE IF GuardTwoFingers(index_extended, middle_extended, ring_extended, pinky_extended)
    THEN Result("two_fingers", 90)
    ELSE IF GuardOk(middle_extended, ring_extended, pinky_extended, close)
    THEN Result("ok", 85)
    ELSE IF GuardPalm(thumb_extended, index_extended, middle_extended, ring_extended, pinky_extended)
    THEN Result("palm", 90)
    ELSE NoGesture

\* _classify_gesture: lines 103-108 index the sequence first (IndexError on a
\* sequence shorter than 21), then the flags, the direction and the rules
classify_gesture(lms) ==
    IF \E k \in {4, 8, 12, 16, 20, 0} : ~IndexOk(lms, k)
    THEN Raised
    ELSE LET thumb_tip == Lm(lms, 4)
             index_tip == Lm(lms, 8)
             wrist == Lm(lms, 0)
         IN  Rules(is_finger_extended(lms, 4),
                   is_finger_extended(lms, 8),
                   is_finger_extended(lms, 12),
                   is_finger_extended(lms, 16),
                   is_finger_extended(lms, 20),
                   DirXRight(index_tip, wrist),
                   DirXLeft(index_tip, wrist),
                   ThumbIndexClose(thumb_tip, index_tip))

----------------------------------------------------------------------------
(* Landmark inputs.  A hand is a sequence of 21 points <<x, y, z>>, indexed *)
(* as MediaPipe does (0 wrist; thumb 1-4; index 5-8; middle 9-12; ring      *)
(* 13-16; pinky 17-20).  The hands are built from a few poses per finger.   *)

Wrist == <<12, 22>>
Pose(mcp, ip, tip) == [mcp |-> mcp, ip |-> ip, tip |-> tip]

ThumbPoses ==
    { Pose(<<7, 18>>, <<4, 16>>, <<2, 14>>),   \* extended, away from the index tip
      Pose(<<7, 18>>, <<8, 12>>, <<9, 5>>),    \* extended, touching a raised index tip
      Pose(<<7, 18>>, <<8, 12>>, <<8, 4>>),    \* extended, just off a raised index tip
      Pose(<<7, 18>>, <<6, 16>>, <<9, 19>>),   \* folded, away from the index tip
      Pose(<<7, 18>>, <<8, 16>>, <<9, 15>>),   \* folded, touching a folded index tip
      Pose(<<3, 8>>, <<6, 6>>, <<9, 5>>),      \* bent back onto a raised index tip
      Pose(<<12, 22>>, <<13, 14>>, <<14, 10>>) } \* base joint on the wrist
IndexPoses ==
    { Pose(<<10, 14>>, <<10, 9>>, <<10, 5>>),    \* extended, pointing up
      Pose(<<15, 19>>, <<19, 18>>, <<23, 17>>),  \* extended, pointing right
      Pose(<<9, 19>>, <<5, 18>>, <<1, 17>>),     \* extended, pointing left
      Pose(<<10, 14>>, <<10, 11>>, <<10, 15>>),  \* folded
      Pose(<<10, 14>>, <<10, 11>>, <<12, 22>>) } \* tip on the wrist
MiddlePoses ==
    { Pose(<<12, 13>>, <<12, 8>>, <<12, 3>>),    \* extended
      Pose(<<12, 13>>, <<12, 8>>, <<12, 14>>),   \* folded
      Pose(<<12, 13>>, <<12, 8>>, <<12, 11>>) }  \* outward, tip nearer than the mid joint
RingPoses ==
    { Pose(<<14, 14>>, <<14, 9>>, <<14, 5>>),    \* extended
      Pose(<<14, 14>>, <<14, 9>>, <<14, 15>>),   \* folded
      Pose(<<14, 14>>, <<14, 9>>, <<24, 16>>) }  \* tip far out, sideways to the hand
PinkyPoses ==
    { Pose(<<16, 15>>, <<16, 11>>, <<16, 8>>),   \* extended
      Pose(<<16, 15>>, <<16, 11>>, <<16, 16>>),  \* folded
      Pose(<<16, 15>>, <<15, 17>>, <<16, 15>>) } \* tip on the base joint
\* relative depths given to the finger tips
Depths == {0, -2}

P3(p, z) == <<p[1], p[2], z>>
MakeHand(th, ix, mi, ri, pk, z) ==
    << P3(Wrist, 0),
       P3(<<9, 20>>, 0), P3(th.mcp, 0), P3(th.ip, 0), P3(th.tip, z),
       P3(ix.mcp, 0), P3(ix.mcp, 0), P3(ix.ip, 0), P3(ix.tip, z),
       P3(mi.mcp, 0), P3(mi.mcp, 0), P3(mi.ip, 0), P3(mi.tip, z),
       P3(ri.mcp, 0), P3(ri.mcp, 0), P3(ri.ip, 0), P3(ri.tip, z),
       P3(pk.mcp, 0), P3(pk.mcp, 0), P3(pk.ip, 0), P3(pk.tip, z) >>

\* what the landmark provider hands over for a detected hand: always 21 points
Hands ==
    { MakeHand(th, ix, mi, ri, pk, z) :
        th \in ThumbPoses, ix \in IndexPoses, mi \in MiddlePoses,
        ri \in RingPoses, pk \in PinkyPoses, z \in Depths }

\* sequences the classifier can be handed on its own: the hands, hands cut
\* short (0, 5 and 20 points) and a hand with one point too many
Truncations == {0, 5, 20}
ClassifierInputs ==
    Hands \cup { SubSeq(h, 1, n) : h \in Hands, n \in Truncations }
          \cup { Append(h, P3(Wrist, 0)) : h \in Hands }

----------------------------------------------------------------------------
(* GestureDetector: the cooldown gate of detect_gesture.                   *)

Returned(g, hl, c) == [gesture |-> g, hand_landmarks |-> hl, confidence |-> c,
                       raised |-> FALSE]

\* line 64: if results.multi_hand_landmarks
HandsFound(frame) == frame # NoHand

\* line 86: current_time - self.gesture_timestamp < self.gesture_cooldown.
\* CooldownOff is the gate left out; CooldownActiveInclusive also refuses the
\* frame exactly gesture_cooldown after the last emission.
CooldownOff(current_time) == FALSE

CooldownActiveInclusive(current_time) ==
    current_time - gesture_timestamp <= GestureCooldown

CooldownActive(current_time) == current_time - gesture_timestamp < GestureCooldown

\* line 89: if gesture.  TruthyAlways is that test left out.
TruthyAlways(gesture) == TRUE

Truthy(gesture) == gesture # None

\* log_gesture: self.log_file is the open file object, which is truthy, so the
\* row is written.  log_gesture_skipped writes nothing.
log_gesture_skipped(gesture, confidence, success) == UNCHANGED log

log_gesture(gesture, confidence, success) ==
    log' = Append(log, <<gesture, confidence, success>>)

\* line 87: return None, hand_landmarks, 0.  SuppressExtends also restarts
\* the window at the suppressed frame.
SuppressExtends(current_time) ==
    /\ ret' = [gesture |-> None, hand_landmarks |-> TRUE, confidence |-> 0,
               raised |-> FALSE]
    /\ gesture_timestamp' = current_time
    /\ UNCHANGED <<last_gesture, log>>

Suppress(current_time) ==
    /\ ret' = Returned(None, TRUE, 0)
    /\ UNCHANGED <<gesture_timestamp, last_gesture, log>>

\* lines 90-93
Emit(gesture, confidence, current_time) ==
    /\ gesture_timestamp' = current_time
    /\ last_gesture' = gesture
    /\ log_gesture(gesture, confidence, TRUE)
    /\ ret' = Returned(gesture, TRUE, confidence)

\* line 95: return None, None, 0.  ReturnNothingLogged also records the
\* frame as a failed detection.
ReturnNothingLogged ==
    /\ ret' = [gesture |-> None, hand_landmarks |-> FALSE, confidence |-> 0,
               raised |-> FALSE]
    /\ log' = Append(log, <<None, 0, FALSE>>)
    /\ UNCHANGED <<gesture_timestamp, last_gesture>>

ReturnNothing ==
    /\ ret' = Returned(None, FALSE, 0)
    /\ UNCHANGED <<gesture_timestamp, last_gesture, log>>

\* lines 84-95 for the hand's raw (gesture, confidence).  ApplyCooldownPerLabel
\* keeps one window per label: it suppresses only a repeat of last_gesture.
ApplyCooldownPerLabel(gesture, confidence, current_time) ==
    IF gesture = last_gesture /\ current_time - gesture_timestamp < GestureCooldown
    THEN Suppress(current_time)
    ELSE IF Truthy(gesture)
    THEN Emit(gesture, confidence, current_time)
    ELSE ReturnNothing

ApplyCooldown(gesture, confidence, current_time) ==
    IF CooldownActive(current_time)
    THEN Suppress(current_time)
    ELSE IF Truthy(gesture)
    THEN Emit(gesture, confidence, current_time)
    ELSE ReturnNothing

\* what the caller of detect_gesture sees: a gesture came back or not
Observe ==
    emitted' = IF ret'.gesture # None
               THEN Append(emitted, <<clock, ret'.gesture, ret'.confidence>>)
               ELSE emitted

\* line 82: gesture, confidence = self._classify_gesture(landmarks).
\* RawClassificationDebounced reads the detector's state: a label equal to
\* self.last_gesture is reported as no gesture.
RawClassificationDebounced(frame) ==
    IF classify_gesture(frame).gesture = last_gesture
    THEN NoGesture
    ELSE classify_gesture(frame)

RawClassification(frame) == classify_gesture(frame)

\* detect_gesture(frame): frame is NoHand or the 21 landmarks of the one hand
\* (max_num_hands=1) the landmark provider found in it
detect_gesture(frame) ==
    /\ op' = "detect"
    /\ now' = clock
    /\ handDetected' = HandsFound(frame)
    /\ landmarks' = frame
    /\ UNCHANGED <<clock, cres>>
    /\ UNCHANGED auxVars
    /\ IF ~HandsFound(frame)
       THEN /\ raw' = NoGesture
            /\ ReturnNothing
       ELSE LET r == RawClassification(frame)
                current_time == clock
            IN  /\ raw' = r
                /\ IF r.raised
                   THEN /\ ret' = [Returned(None, FALSE, 0) EXCEPT !.raised = TRUE]
                        /\ UNCHANGED <<gesture_timestamp, last_gesture, log>>
                   ELSE ApplyCooldown(r.gesture, r.confidence, current_time)
    /\ Observe

\* The frames of the camera.  detect_gesture uses the landmarks only through
\* _classify_gesture, so one hand stands for all the hands of Hands that the
\* classifier maps to the same result.
FrameHands ==
    { CHOOSE h \in Hands : classify_gesture(h) = r :
        r \in { classify_gesture(g) : g \in Hands } }

Detect ==
    /\ \E frame \in FrameHands \cup {NoHand} : detect_gesture(frame)
    /\ UNCHANGED appVars

\* time passes between two frames
Tick ==
    /\ clock < MaxTime
    /\ clock' = clock + 1
    /\ op' = "tick"
    /\ UNCHANGED <<gesture_timestamp, last_gesture, log, ret, raw, handDetected,
                   now, emitted, landmarks, cres>>
    /\ UNCHANGED auxVars
    /\ UNCHANGED appVars

----------------------------------------------------------------------------
(* The application around the detector: PDFHandler (src/pdf_handler.py),   *)
(* the view and the exit modal of UIManager (src/ui_manager.py) and the    *)
(* gesture handlers of EduGesture (src/main.py).                           *)
(*                                                                         *)
(* A file name is a sequence of numbers: <<1>> is "a.pdf", <<2>> "b.pdf",  *)
(* and for a name n, Append(n, 1) is its base + "_rezumat.pdf" and         *)
(* Append(n, 2) its base + "_test.pdf".  list.sort() orders names by       *)
(* characters, '.' before '_', which is the order of these sequences with  *)
(* a proper prefix first.                                                  *)

\* no file, no reader: Python's None where a name or a reader is expected
NoFile == <<>>

Min(a, b) == IF a < b THEN a ELSE b

NameLess(a, b) ==
    \E i \in 1..(Min(Len(a), Len(b)) + 1) :
        /\ \A j \in 1..(i - 1) : a[j] = b[j]
        /\ \/ i > Len(a) /\ i <= Len(b)
           \/ i <= Len(a) /\ i <= Len(b) /\ a[i] < b[i]

RECURSIVE Sorted(_)
Sorted(S) ==
    IF S = {} THEN <<>>
    ELSE LET m == CHOOSE x \in S : \A y \in S \ {x} : NameLess(x, y)
         IN  <<m>> \o Sorted(S \ {m})

\* scan_folder (lines 26-28): the sorted list of the .pdf files of the folder
scan_folder(files) == Sorted(files)

\* PDFHandler.__init__ (lines 13-19) on a folder holding the given files
NewHandler(files) ==
    [pdf_files |-> scan_folder(files), current_file_index |-> 0,
     current_pdf |-> NoFile, current_page |-> 0, total_pages |-> 0]

\* what a call returns together with the handler it leaves behind
Outcome(p, r) == [pdf |-> p, ret |-> r]

\* get_current_file (lines 44-46)
get_current_file(p) ==
    IF p.pdf_files = <<>> THEN NoFile ELSE p.pdf_files[p.current_file_index + 1]

\* navigate (lines 36-40): the selection moves round the list.  The returned
\* name is only logged.
navigate(p, direction) ==
    IF p.pdf_files = <<>> THEN p
    ELSE [p EXCEPT !.current_file_index =
                       (p.current_file_index + direction) % Len(p.pdf_files)]

\* the pages of the documents: a reader shows up to MaxPages pages
MaxPages == 2

\* How opening a file can go: the file is no longer there (line 57),
\* PdfReader raises (line 66), the reader is built but its pages cannot be
\* counted (line 67), or the file opens and has .pages pages.
OpenOutcomes ==
    { [kind |-> k, pages |-> 0] : k \in {"missing", "raise", "raise_pages"} }
        \cup { [kind |-> "ok", pages |-> n] : n \in 0..MaxPages }

\* The documents of the application's folder are MaxPages long: opening one of
\* them goes any of the ways above, with that many pages when it succeeds.
FolderOutcomes == { o \in OpenOutcomes : o.kind = "ok" => o.pages = MaxPages }

\* open_pdf() (lines 50-74), run without interruption
open_pdf(p, o) ==
    IF p.pdf_files = <<>> THEN Outcome(p, FALSE)
    ELSE IF o.kind = "missing" THEN Outcome(p, FALSE)
    ELSE IF o.kind = "raise"
    THEN Outcome([p EXCEPT !.current_pdf = NoFile], FALSE)
    ELSE IF o.kind = "raise_pages"
    THEN Outcome([p EXCEPT !.current_pdf = get_current_file(p)], FALSE)
    ELSE Outcome([p EXCEPT !.current_pdf = get_current_file(p),
                           !.total_pages = o.pages,
                           !.current_page = 0], TRUE)

\* close_pdf (lines 78-84)
close_pdf(p) ==
    IF p.current_pdf # NoFile
    THEN Outcome([p EXCEPT !.current_pdf = NoFile, !.current_page = 0,
                           !.total_pages = 0], TRUE)
    ELSE Outcome(p, FALSE)

\* navigate_pdf_wrapping goes round the pages as navigate goes round the files
navigate_pdf_wrapping(p, direction) ==
    IF p.current_pdf = NoFile \/ p.total_pages = 0 THEN Outcome(p, FALSE)
    ELSE Outcome([p EXCEPT !.current_page =
                               (p.current_page + direction) % p.total_pages],
                 TRUE)

\* navigate_pdf (lines 88-95)
navigate_pdf(p, direction) ==
    IF p.current_pdf = NoFile THEN Outcome(p, FALSE)
    ELSE LET new_page == p.current_page + direction
         IN  IF 0 <= new_page /\ new_page < p.total_pages
             THEN Outcome([p EXCEPT !.current_page = new_page], TRUE)
             ELSE Outcome(p, FALSE)

\* the folders the application is started on: empty, one file, two files
Folders == { {}, {<<1>>}, {<<1>>, <<2>>} }

NoCall == [name |-> "none", arg |-> 0, ret |-> FALSE]

\* at most this many generate_with_ollama threads are started
MaxWorkers == 2
WorkerIds == 1..MaxWorkers
\* a thread that has not been started or has ended
NoWorker ==
    [pc |-> "none", current_file |-> NoFile, filename |-> NoFile, text |-> NoFile]

\* EduGesture.__init__ (main.py lines 23-37), UIManager.__init__ (lines 44,
\* 49) and PDFHandler.__init__ on the given folder
NewApp(files) ==
    /\ ui = [current_view |-> "menu", show_exit_modal |-> FALSE]
    /\ app = [running |-> FALSE, ollama_running |-> FALSE, pc |-> "init",
              started |-> 0, exit_by |-> "none"]
    /\ pdf = NewHandler(files)
    /\ workers = [w \in WorkerIds |-> NoWorker]
    /\ disk = files
    /\ written = {}
    /\ handled = <<>>
    /\ call = NoCall

AppInit == NewApp({})

\* nothing has been handed to the rule chain or to _is_finger_extended, and
\* no thread is inside detect_gesture
Threads == {1, 2}
NoRuleInput ==
    [thumb |-> FALSE, index |-> FALSE, middle |-> FALSE, ring |-> FALSE,
     pinky |-> FALSE, dirx |-> 0, dist |-> 0]
IdleThread ==
    [pc |-> "idle", r |-> NoGesture, current_time |-> 0, seen |-> 0, calls |-> 0]
AuxInit ==
    /\ rin = NoRuleInput
    /\ ext = [finger |-> 0, extended |-> FALSE, was |-> FALSE]
    /\ thr = [t \in Threads |-> IdleThread]
    /\ emitBy = <<>>
    /\ AppInit

\* GestureDetector.__init__ (lines 21-23), at whatever time the clock shows
Init ==
    /\ clock \in 0..MaxTime
    /\ gesture_timestamp = 0
    /\ last_gesture = None
    /\ log = <<>>
    /\ ret = Returned(None, FALSE, 0)
    /\ raw = NoGesture
    /\ handDetected = FALSE
    /\ now = clock
    /\ op = "init"
    /\ emitted = <<>>
    /\ landmarks = <<>>
    /\ cres = NoGesture
    /\ AuxInit

Next == Detect \/ Tick

Spec == Init /\ [][Next]_vars

\* the main loop (main.py line 293) keeps calling detect_gesture, and the
\* time it reads at line 85 keeps growing: no time value stays without a frame
\* for ever
FrameDue == ~(op = "detect" /\ now = clock)
SpecLive == Spec /\ WF_vars(Tick) /\ WF_vars(FrameDue /\ Detect)

----------------------------------------------------------------------------
(* The classifier on its own: _classify_gesture applied to one argument.   *)

Classify ==
    /\ op = "init"
    /\ op' = "classify"
    /\ cres' = classify_gesture(landmarks)
    /\ UNCHANGED <<clock, gesture_timestamp, last_gesture, log, ret, raw,
                   handDetected, now, emitted, landmarks>>
    /\ UNCHANGED auxVars
    /\ UNCHANGED appVars

\* _is_finger_extended applied on its own to a hand and a landmark index
FingerArgs == FingerTips \cup {0, 3, 7, 21}
IsFingerExtended ==
    /\ op = "init"
    /\ landmarks \in Hands
    /\ op' = "extended"
    /\ \E k \in FingerArgs :
          ext' = [finger |-> k, extended |-> is_finger_extended(landmarks, k),
                  was |-> FALSE]
    /\ UNCHANGED <<clock, gesture_timestamp, last_gesture, log, ret, raw,
                   handDetected, now, emitted, landmarks, cres, rin, thr, emitBy>>
    /\ UNCHANGED appVars

\* the tip of the finger just tested is moved to mcp + (s/2) (tip - mcp), a
\* point farther from the base joint in the same direction, and the finger is
\* tested again
MaxStretch == 6
MoveTip ==
    /\ op = "extended"
    /\ ext.finger \in FingerTips
    /\ op' = "moved"
    /\ \E s \in 3..MaxStretch :
          LET k == ext.finger
              tip == Lm(landmarks, k)
              mcp == Lm(landmarks, McpIdx(k))
              d == Sub2(tip, mcp)
          IN  /\ d # <<0, 0>>
              /\ (s * d[1]) % 2 = 0 /\ (s * d[2]) % 2 = 0
              /\ landmarks' = [landmarks EXCEPT ![k + 1] =
                                  <<mcp[1] + (s * d[1]) \div 2,
                                    mcp[2] + (s * d[2]) \div 2, tip[3]>>]
              /\ ext' = [finger |-> k,
                         extended |-> is_finger_extended(landmarks', k),
                         was |-> ext.extended]
    /\ UNCHANGED <<clock, gesture_timestamp, last_gesture, log, ret, raw,
                   handDetected, now, emitted, cres, rin, thr, emitBy>>
    /\ UNCHANGED appVars

InitClassify ==
    /\ clock = 0
    /\ gesture_timestamp = 0
    /\ last_gesture = None
    /\ log = <<>>
    /\ ret = Returned(None, FALSE, 0)
    /\ raw = NoGesture
    /\ handDetected = FALSE
    /\ now = 0
    /\ op = "init"
    /\ emitted = <<>>
    /\ landmarks \in ClassifierInputs
    /\ cres = NoGesture
    /\ AuxInit

NextClassify == Classify \/ IsFingerExtended \/ MoveTip

SpecClassify == InitClassify /\ [][NextClassify]_vars

----------------------------------------------------------------------------
(* EduGesture: the gesture handlers, run by the main loop without          *)
(* interruption, and generate_with_ollama, run by a thread of its own one  *)
(* statement on shared data at a time.  pdf_files holds only names ending  *)
(* in .pdf (scan_folder), so is_pdf_file is true of every selected file,   *)
(* the branch for text files (main.py lines 124-132) is never taken and    *)
(* current_text stays None.                                                *)

\* the detector is not called
DetectorIdle ==
    /\ op' = "app"
    /\ UNCHANGED <<clock, gesture_timestamp, last_gesture, log, ret, raw,
                   handDetected, now, emitted, landmarks, cres>>
    /\ UNCHANGED auxVars

Called(name, arg, r) == [name |-> name, arg |-> arg, ret |-> r]

\* lines 143-147 and 256-260: the flag is set and the thread is started
StartWorker ==
    /\ app.started < MaxWorkers
    /\ app' = [app EXCEPT !.ollama_running = TRUE, !.started = @ + 1]
    /\ workers' = [workers EXCEPT ![app.started + 1] =
                       [NoWorker EXCEPT !.pc = "start"]]
    /\ call' = NoCall
    /\ UNCHANGED <<ui, pdf>>

Nothing == call' = NoCall /\ UNCHANGED <<ui, app, pdf, workers>>

\* lines 93-149: the gestures of the menu other than palm
MenuDispatch(gesture) ==
    IF pdf.pdf_files = <<>> THEN Nothing
    ELSE IF gesture = "right"
    THEN /\ pdf' = navigate(pdf, 1)
         /\ call' = NoCall
         /\ UNCHANGED <<ui, app, workers>>
    ELSE IF gesture = "left"
    THEN /\ pdf' = navigate(pdf, -1)
         /\ call' = NoCall
         /\ UNCHANGED <<ui, app, workers>>
    ELSE IF gesture = "ok"
    THEN \E o \in FolderOutcomes :
            LET r == open_pdf(pdf, o)
            IN  /\ pdf' = r.pdf
                /\ call' = NoCall
                /\ ui' = IF r.ret THEN [ui EXCEPT !.current_view = "document"]
                                  ELSE ui
                /\ UNCHANGED <<app, workers>>
    ELSE IF gesture = "two_fingers" /\ ~app.ollama_running
    THEN StartWorker
    ELSE Nothing

\* ModalGestureKeepsModal handles a gesture other than palm as if the modal
\* were not there, and leaves the modal up
ModalGestureKeepsModal(gesture) ==
    IF gesture = "palm"
    THEN /\ app' = [app EXCEPT !.running = FALSE, !.exit_by = "gesture"]
         /\ call' = NoCall
         /\ UNCHANGED <<ui, pdf, workers>>
    ELSE MenuDispatch(gesture)

\* ModalGestureFallsThrough hides the modal and then handles the gesture
ModalGestureFallsThrough(gesture) ==
    IF gesture = "palm"
    THEN /\ app' = [app EXCEPT !.running = FALSE, !.exit_by = "gesture"]
         /\ call' = NoCall
         /\ UNCHANGED <<ui, pdf, workers>>
    ELSE IF gesture \in {"right", "left"} /\ pdf.pdf_files # <<>>
    THEN /\ ui' = [ui EXCEPT !.show_exit_modal = FALSE]
         /\ call' = Called("hide_exit_confirmation", 0, FALSE)
         /\ pdf' = navigate(pdf, IF gesture = "right" THEN 1 ELSE -1)
         /\ UNCHANGED <<app, workers>>
    ELSE /\ ui' = [ui EXCEPT !.show_exit_modal = FALSE]
         /\ call' = Called("hide_exit_confirmation", 0, FALSE)
         /\ UNCHANGED <<app, pdf, workers>>

\* lines 75-85: a gesture that arrives while the exit modal is showing
ModalGesture(gesture) ==
    IF gesture = "palm"
    THEN /\ app' = [app EXCEPT !.running = FALSE, !.exit_by = "gesture"]
         /\ call' = NoCall
         /\ UNCHANGED <<ui, pdf, workers>>
    ELSE /\ ui' = [ui EXCEPT !.show_exit_modal = FALSE]
         /\ call' = Called("hide_exit_confirmation", 0, FALSE)
         /\ UNCHANGED <<app, pdf, workers>>

\* MenuPalmExits ends the application at once
MenuPalmExits ==
    /\ app' = [app EXCEPT !.running = FALSE, !.exit_by = "gesture"]
    /\ call' = NoCall
    /\ UNCHANGED <<ui, pdf, workers>>

\* lines 88-91: palm in the menu with the modal hidden
MenuPalm ==
    /\ ui' = [ui EXCEPT !.show_exit_modal = TRUE]
    /\ call' = Called("show_exit_confirmation", 0, FALSE)
    /\ UNCHANGED <<app, pdf, workers>>

\* handle_menu_gesture (lines 72-149)
handle_menu_gesture(gesture) ==
    IF ui.show_exit_modal THEN ModalGesture(gesture)
    ELSE IF gesture = "palm" THEN MenuPalm
    ELSE MenuDispatch(gesture)

\* DocumentPalmAlways returns to the menu whatever close_pdf says
DocumentPalmAlways ==
    LET r == close_pdf(pdf)
    IN  /\ pdf' = r.pdf
        /\ call' = Called("close_pdf", 0, r.ret)
        /\ ui' = [ui EXCEPT !.current_view = "menu"]
        /\ UNCHANGED <<app, workers>>

\* lines 220-225: palm in the document view
DocumentPalm ==
    LET r == close_pdf(pdf)
    IN  /\ pdf' = r.pdf
        /\ call' = Called("close_pdf", 0, r.ret)
        /\ ui' = IF r.ret THEN [ui EXCEPT !.current_view = "menu"] ELSE ui
        /\ UNCHANGED <<app, workers>>

\* lines 235 and 247: a page forward or back
DocumentPage(direction) ==
    /\ pdf' = navigate_pdf(pdf, direction).pdf
    /\ call' = NoCall
    /\ UNCHANGED <<ui, app, workers>>

\* handle_document_gesture (lines 218-262)
handle_document_gesture(gesture) ==
    IF gesture = "palm" THEN DocumentPalm
    ELSE IF gesture = "right" THEN DocumentPage(1)
    ELSE IF gesture = "left" THEN DocumentPage(-1)
    ELSE IF gesture = "two_fingers" /\ ~app.ollama_running THEN StartWorker
    ELSE Nothing

\* handle_gesture (lines 264-274), called by the main loop (line 345) while
\* it runs
handle_gesture(gesture) ==
    /\ app.pc = "loop" /\ app.running
    /\ Truthy(gesture)
    /\ IF ui.current_view = "menu"
       THEN handle_menu_gesture(gesture)
       ELSE handle_document_gesture(gesture)
    /\ UNCHANGED <<disk, written>>

\* main_loop line 278: self.running = True
StartLoop ==
    /\ app.pc = "init"
    /\ app' = [app EXCEPT !.pc = "loop", !.running = TRUE]
    /\ UNCHANGED <<ui, pdf, workers, disk, written, handled, call>>

\* main_loop lines 295-297: the window is closed or Escape is pressed
Quit ==
    /\ app.pc = "loop" /\ app.running
    /\ app' = [app EXCEPT !.running = FALSE, !.exit_by = "event"]
    /\ UNCHANGED <<ui, pdf, workers, disk, written, handled, call>>

----------------------------------------------------------------------------
(* The main loop: each frame goes through detect_gesture, and a gesture    *)
(* that comes back is handed to handle_gesture (main.py lines 327-345).    *)

\* the main loop is followed up to this time (tenths of a second)
MaxLoopTime == 32

\* the frames of the loop: hands classified palm, right and ok, a hand
\* without label and a frame without hand
LoopFrames ==
    { h \in FrameHands :
        classify_gesture(h).gesture \in {None, "palm", "right", "ok"} }
        \cup {NoHand}

MainLoopFrame ==
    /\ app.pc = "loop" /\ app.running
    /\ \E frame \in LoopFrames : detect_gesture(frame)
    /\ IF Truthy(ret'.gesture)
       THEN /\ handle_gesture(ret'.gesture)
            /\ handled' = Append(handled, <<ret'.gesture, ui.current_view, clock>>)
       ELSE UNCHANGED appVars

\* time passes between two frames of the loop
LoopElapse ==
    /\ clock + TimeStep <= MaxLoopTime
    /\ clock' = clock + TimeStep
    /\ op' = "tick"
    /\ UNCHANGED <<gesture_timestamp, last_gesture, log, ret, raw, handDetected,
                   now, emitted, landmarks, cres>>
    /\ UNCHANGED auxVars
    /\ UNCHANGED appVars

\* run() up to the loop, and the window events
LoopStart == StartLoop /\ DetectorIdle
LoopQuit == Quit /\ DetectorIdle

InitLoop ==
    /\ clock = 0
    /\ gesture_timestamp = 0
    /\ last_gesture = None
    /\ log = <<>>
    /\ ret = Returned(None, FALSE, 0)
    /\ raw = NoGesture
    /\ handDetected = FALSE
    /\ now = 0
    /\ op = "init"
    /\ emitted = <<>>
    /\ landmarks = <<>>
    /\ cres = NoGesture
    /\ rin = NoRuleInput
    /\ ext = [finger |-> 0, extended |-> FALSE, was |-> FALSE]
    /\ thr = [t \in Threads |-> IdleThread]
    /\ emitBy = <<>>
    /\ \E files \in Folders : NewApp(files)

NextLoop == LoopStart \/ MainLoopFrame \/ LoopElapse \/ LoopQuit

SpecLoop == InitLoop /\ [][NextLoop]_vars

----------------------------------------------------------------------------
(* The application with its generation threads.  Gestures arrive as the    *)
(* main loop hands them to handle_gesture; a thread started by two_fingers *)
(* runs generate_with_ollama (main.py lines 151-216) and, inside it,       *)
(* open_pdf (pdf_handler.py lines 50-71) one statement at a time.          *)

\* a step of a thread: the detector is not involved.  The threads are daemon
\* threads (line 147): they run as long as the application does.
WorkerStep ==
    /\ app.running
    /\ DetectorIdle
    /\ UNCHANGED <<ui, handled, call>>

At(w, pc) == workers[w].pc = pc
Goto(w, pc) == workers' = [workers EXCEPT ![w].pc = pc]
\* the function is left: its locals are gone
Leave(w, pc) == workers' = [workers EXCEPT ![w] = [NoWorker EXCEPT !.pc = pc]]

\* ReleaseFlagSkipped leaves the flag as it is
ReleaseFlagSkipped == UNCHANGED app

\* self.ollama_running = False (lines 158, 167, 176, 186, 196, 216)
ReleaseFlag == app' = [app EXCEPT !.ollama_running = FALSE]

\* line 155: current_file = self.pdf_handler.get_current_file()
W_GetFile(w) ==
    /\ At(w, "start")
    /\ workers' = [workers EXCEPT ![w].pc = "open50",
                                  ![w].current_file = get_current_file(pdf)]
    /\ UNCHANGED <<app, pdf, disk, written>>
    /\ WorkerStep

\* open_pdf lines 50-58: the selected name is read again; the file is there
\* or not
W_OpenLookup(w) ==
    /\ At(w, "open50")
    /\ IF pdf.pdf_files = <<>>
       THEN Leave(w, "release")
       ELSE \E exists \in BOOLEAN :
               IF exists
               THEN workers' = [workers EXCEPT ![w].pc = "open62",
                                   ![w].filename = get_current_file(pdf)]
               ELSE Leave(w, "release")
    /\ UNCHANGED <<app, pdf, disk, written>>
    /\ WorkerStep

\* open_pdf lines 62-63: the reader that was there is dropped
W_OpenDrop(w) ==
    /\ At(w, "open62")
    /\ pdf' = [pdf EXCEPT !.current_pdf = NoFile]
    /\ Goto(w, "open66")
    /\ UNCHANGED <<app, disk, written>>
    /\ WorkerStep

\* open_pdf line 66: PdfReader builds the new reader, or raises and open_pdf
\* returns False (lines 72-74)
W_OpenRead(w) ==
    /\ At(w, "open66")
    /\ \E raises \in BOOLEAN :
          IF raises
          THEN /\ Leave(w, "release")
               /\ UNCHANGED pdf
          ELSE /\ pdf' = [pdf EXCEPT !.current_pdf = workers[w].filename]
               /\ workers' = [workers EXCEPT ![w].pc = "open67",
                                             ![w].filename = NoFile]
    /\ UNCHANGED <<app, disk, written>>
    /\ WorkerStep

\* open_pdf line 67: the pages of self.current_pdf are counted; this raises
\* when the reader has been closed meanwhile or cannot count its pages
W_OpenPages(w) ==
    /\ At(w, "open67")
    /\ IF pdf.current_pdf = NoFile
       THEN Leave(w, "release") /\ UNCHANGED pdf
       ELSE \E o \in FolderOutcomes :
               /\ o.kind \in {"raise_pages", "ok"}
               /\ IF o.kind = "ok"
                  THEN /\ pdf' = [pdf EXCEPT !.total_pages = o.pages]
                       /\ Goto(w, "open68")
                  ELSE Leave(w, "release") /\ UNCHANGED pdf
    /\ UNCHANGED <<app, disk, written>>
    /\ WorkerStep

\* open_pdf lines 68-71: the first page is shown, open_pdf returns True
W_OpenReset(w) ==
    /\ At(w, "open68")
    /\ pdf' = [pdf EXCEPT !.current_page = 0]
    /\ Goto(w, "text")
    /\ UNCHANGED <<app, disk, written>>
    /\ WorkerStep

\* lines 163-197: the text of self.current_pdf is extracted; it is empty when
\* no reader is there or the document has no text.  Then the connection test,
\* the summary and the test, which share nothing with the main loop: each
\* can come back as an error text.  Any of these calls can raise.
W_Generate(w) ==
    /\ At(w, "text")
    /\ IF pdf.current_pdf = NoFile
       THEN Leave(w, "release")
       ELSE \E how \in {"ok", "empty", "error", "raise"} :
               IF how = "ok"
               THEN workers' = [workers EXCEPT ![w].pc = "save",
                                              ![w].text = pdf.current_pdf]
               ELSE IF how = "raise" THEN Leave(w, "finally")
               ELSE Leave(w, "release")
    /\ UNCHANGED <<app, pdf, disk, written>>
    /\ WorkerStep

\* lines 158-159, 167-168, 176-177, 186-187, 196-197: the flag is released
\* and the function returns, through the finally clause
W_ReleaseEarly(w) ==
    /\ At(w, "release")
    /\ ReleaseFlag
    /\ Goto(w, "finally")
    /\ UNCHANGED <<pdf, disk, written>>
    /\ WorkerStep

\* lines 200-201: the files are named after current_file; create_text_files
\* writes two .pdf files, or two .txt files, or raises
W_Save(w) ==
    /\ At(w, "save")
    /\ \E how \in {"pdf", "txt", "raise"} :
          IF how = "raise"
          THEN Leave(w, "finally") /\ UNCHANGED <<disk, written>>
          ELSE /\ written' = written \cup
                                {<<workers[w].current_file, workers[w].text>>}
               /\ disk' = IF how = "pdf"
                          THEN disk \cup {Append(workers[w].current_file, 1),
                                          Append(workers[w].current_file, 2)}
                          ELSE disk
               /\ Leave(w, "scan")
    /\ UNCHANGED <<app, pdf>>
    /\ WorkerStep

\* line 211: self.pdf_handler.scan_folder()
W_Scan(w) ==
    /\ At(w, "scan")
    /\ pdf' = [pdf EXCEPT !.pdf_files = scan_folder(disk)]
    /\ Goto(w, "finally")
    /\ UNCHANGED <<app, disk, written>>
    /\ WorkerStep

\* lines 215-216: finally: self.ollama_running = False; the thread ends
W_Finally(w) ==
    /\ At(w, "finally")
    /\ ReleaseFlag
    /\ workers' = [workers EXCEPT ![w] = NoWorker]
    /\ UNCHANGED <<pdf, disk, written>>
    /\ WorkerStep

Worker(w) ==
    \/ W_GetFile(w) \/ W_OpenLookup(w) \/ W_OpenDrop(w) \/ W_OpenRead(w)
    \/ W_OpenPages(w) \/ W_OpenReset(w) \/ W_Generate(w)
    \/ W_ReleaseEarly(w) \/ W_Save(w) \/ W_Scan(w) \/ W_Finally(w)

\* main.py line 345: a gesture that detect_gesture returned is handled
GestureArrives ==
    \E gesture \in Labels :
        /\ handle_gesture(gesture)
        /\ DetectorIdle
        /\ UNCHANGED handled

\* the folders the application is started on here: empty or one file; the
\* files a generation writes make the list grow
AppFolders == { {}, {<<1>>} }

InitApp ==
    /\ clock = 0
    /\ gesture_timestamp = 0
    /\ last_gesture = None
    /\ log = <<>>
    /\ ret = Returned(None, FALSE, 0)
    /\ raw = NoGesture
    /\ handDetected = FALSE
    /\ now = 0
    /\ op = "init"
    /\ emitted = <<>>
    /\ landmarks = <<>>
    /\ cres = NoGesture
    /\ rin = NoRuleInput
    /\ ext = [finger |-> 0, extended |-> FALSE, was |-> FALSE]
    /\ thr = [t \in Threads |-> IdleThread]
    /\ emitBy = <<>>
    /\ \E files \in AppFolders : NewApp(files)

NextApp ==
    \/ LoopStart
    \/ GestureArrives
    \/ LoopQuit
    \/ \E w \in WorkerIds : Worker(w)

SpecApp == InitApp /\ [][NextApp]_vars

----------------------------------------------------------------------------
(* PDFHandler on its own: any sequence of calls of open_pdf, navigate_pdf, *)
(* close_pdf and navigate.                                                 *)

OpenPdf ==
    /\ \E o \in OpenOutcomes :
          LET r == open_pdf(pdf, o)
          IN  /\ pdf' = r.pdf
              /\ call' = [name |-> "open_pdf", arg |-> 0, ret |-> r.ret]
    /\ DetectorIdle
    /\ UNCHANGED <<ui, app, workers, disk, written, handled>>

ClosePdf ==
    /\ LET r == close_pdf(pdf)
       IN  /\ pdf' = r.pdf
           /\ call' = [name |-> "close_pdf", arg |-> 0, ret |-> r.ret]
    /\ DetectorIdle
    /\ UNCHANGED <<ui, app, workers, disk, written, handled>>

NavigatePdf ==
    /\ \E direction \in {1, -1} :
          LET r == navigate_pdf(pdf, direction)
          IN  /\ pdf' = r.pdf
              /\ call' = [name |-> "navigate_pdf", arg |-> direction,
                          ret |-> r.ret]
    /\ DetectorIdle
    /\ UNCHANGED <<ui, app, workers, disk, written, handled>>

Navigate ==
    /\ \E direction \in {1, -1} :
          /\ pdf' = navigate(pdf, direction)
          /\ call' = [name |-> "navigate", arg |-> direction, ret |-> FALSE]
    /\ DetectorIdle
    /\ UNCHANGED <<ui, app, workers, disk, written, handled>>

InitPdf ==
    /\ clock = 0
    /\ gesture_timestamp = 0
    /\ last_gesture = None
    /\ log = <<>>
    /\ ret = Returned(None, FALSE, 0)
    /\ raw = NoGesture
    /\ handDetected = FALSE
    /\ now = 0
    /\ op = "init"
    /\ emitted = <<>>
    /\ landmarks = <<>>
    /\ cres = NoGesture
    /\ rin = NoRuleInput
    /\ ext = [finger |-> 0, extended |-> FALSE, was |-> FALSE]
    /\ thr = [t \in Threads |-> IdleThread]
    /\ emitBy = <<>>
    /\ \E files \in Folders : NewApp(files)

NextPdf == OpenPdf \/ ClosePdf \/ NavigatePdf \/ Navigate

SpecPdf == InitPdf /\ [][NextPdf]_vars

----------------------------------------------------------------------------
(* Two threads calling detect_gesture on one detector with no lock.  A     *)
(* thread can be pre-empted between any two statements that touch the      *)
(* detector: after reading the time (line 85), after the cooldown test     *)
(* (lines 86-89) and after the write of gesture_timestamp (line 90).       *)

\* calls each thread makes at most
MaxThreadCalls == 2

\* the frames the threads process: a labelled hand, an unlabelled hand and a
\* frame without hand
ThreadFrames ==
    { h \in FrameHands : classify_gesture(h).gesture \in {None, "palm"} }
        \cup {NoHand}

\* time passes while the threads run
Elapse ==
    /\ clock + TimeStep <= MaxTime
    /\ clock' = clock + TimeStep
    /\ op' = "tick"
    /\ UNCHANGED <<gesture_timestamp, last_gesture, log, ret, raw, handDetected,
                   now, emitted, landmarks, cres>>
    /\ UNCHANGED auxVars
    /\ UNCHANGED appVars

Back(t) == [IdleThread EXCEPT !.calls = thr[t].calls]

\* lines 55-85: landmarks, raw classification, current_time = time.time()
T_Enter(t) ==
    /\ thr[t].pc = "idle"
    /\ thr[t].calls < MaxThreadCalls
    /\ op' = "thread"
    /\ \E frame \in ThreadFrames :
          IF ~HandsFound(frame)
          THEN /\ thr' = [thr EXCEPT ![t].calls = @ + 1]
               /\ ReturnNothing
          ELSE /\ thr' = [thr EXCEPT ![t] =
                             [pc |-> "check", r |-> RawClassification(frame),
                              current_time |-> clock, seen |-> 0,
                              calls |-> @.calls + 1]]
               /\ UNCHANGED <<ret, gesture_timestamp, last_gesture, log>>
    /\ UNCHANGED <<clock, raw, handDetected, now, emitted, landmarks, cres,
                   rin, ext, emitBy>>
    /\ UNCHANGED appVars

\* lines 86-89: the cooldown test and the test of the label
T_Check(t) ==
    /\ thr[t].pc = "check"
    /\ op' = "thread"
    /\ IF CooldownActive(thr[t].current_time)
       THEN /\ Suppress(thr[t].current_time)
            /\ thr' = [thr EXCEPT ![t] = Back(t)]
       ELSE IF Truthy(thr[t].r.gesture)
       THEN /\ thr' = [thr EXCEPT ![t].pc = "stamp", ![t].seen = Len(emitBy)]
            /\ UNCHANGED <<ret, gesture_timestamp, last_gesture, log>>
       ELSE /\ ReturnNothing
            /\ thr' = [thr EXCEPT ![t] = Back(t)]
    /\ UNCHANGED <<clock, raw, handDetected, now, emitted, landmarks, cres,
                   rin, ext, emitBy>>
    /\ UNCHANGED appVars

\* line 90: self.gesture_timestamp = current_time
T_Stamp(t) ==
    /\ thr[t].pc = "stamp"
    /\ op' = "thread"
    /\ gesture_timestamp' = thr[t].current_time
    /\ emitBy' = Append(emitBy, [thread |-> t, time |-> thr[t].current_time,
                                 seen |-> thr[t].seen])
    /\ thr' = [thr EXCEPT ![t].pc = "record"]
    /\ UNCHANGED <<clock, last_gesture, log, ret, raw, handDetected, now,
                   emitted, landmarks, cres, rin, ext>>
    /\ UNCHANGED appVars

\* lines 91-93: last_gesture, the log row, the return of the gesture
T_Record(t) ==
    /\ thr[t].pc = "record"
    /\ op' = "thread"
    /\ last_gesture' = thr[t].r.gesture
    /\ log_gesture(thr[t].r.gesture, thr[t].r.confidence, TRUE)
    /\ ret' = Returned(thr[t].r.gesture, TRUE, thr[t].r.confidence)
    /\ emitted' = Append(emitted, <<thr[t].current_time, thr[t].r.gesture,
                                    thr[t].r.confidence>>)
    /\ thr' = [thr EXCEPT ![t] = Back(t)]
    /\ UNCHANGED <<clock, gesture_timestamp, raw, handDetected, now, landmarks,
                   cres, rin, ext, emitBy>>
    /\ UNCHANGED appVars

NextConcurrent ==
    \/ \E t \in Threads : T_Enter(t) \/ T_Check(t) \/ T_Stamp(t) \/ T_Record(t)
    \/ Elapse

SpecConcurrent == Init /\ [][NextConcurrent]_vars

----------------------------------------------------------------------------
(* The rule chain on its own: lines 123-148 applied to any five extension  *)
(* flags, any x component of the (unit or zero) direction and any          *)
(* thumb-tip/index-tip distance, both in hundredths.                       *)

\* direction[0] > 0.5, direction[0] < -0.5, thumb_index_dist < 0.08
XRight(dirx) == dirx > 50
XLeft(dirx) == dirx < -50
DistClose(dist) == dist < 8

DirXs == {-100, -51, -50, 0, 50, 51, 100}
Dists == {0, 7, 8, 9, 50}
RuleInputs ==
    [thumb : BOOLEAN, index : BOOLEAN, middle : BOOLEAN, ring : BOOLEAN,
     pinky : BOOLEAN, dirx : DirXs, dist : Dists]

EvalRules ==
    /\ op = "init"
    /\ op' = "rules"
    /\ cres' = Rules(rin.thumb, rin.index, rin.middle, rin.ring, rin.pinky,
                     XRight(rin.dirx), XLeft(rin.dirx), DistClose(rin.dist))
    /\ UNCHANGED <<clock, gesture_timestamp, last_gesture, log, ret, raw,
                   handDetected, now, emitted, landmarks, rin, ext, thr, emitBy>>
    /\ UNCHANGED appVars

InitRules ==
    /\ clock = 0
    /\ gesture_timestamp = 0
    /\ last_gesture = None
    /\ log = <<>>
    /\ ret = Returned(None, FALSE, 0)
    /\ raw = NoGesture
    /\ handDetected = FALSE
    /\ now = 0
    /\ op = "init"
    /\ emitted = <<>>
    /\ landmarks = <<>>
    /\ cres = NoGesture
    /\ rin \in RuleInputs
    /\ ext = [finger |-> 0, extended |-> FALSE, was |-> FALSE]
    /\ thr = [t \in Threads |-> IdleThread]
    /\ emitBy = <<>>
    /\ AppInit

NextRules == EvalRules

SpecRules == InitRules /\ [][NextRules]_vars

----------------------------------------------------------------------------
(* Properties of the cooldown gate (checked under Spec).                   *)

LastEmitTime == emitted[Len(emitted)][1]
LastEmitLabel == emitted[Len(emitted)][2]
\* the step is a detect_gesture call on a hand the classifier gave a label
RawGestureFrame == op' = "detect" /\ handDetected' /\ raw'.gesture # None
CooldownStateUnchanged == UNCHANGED <<gesture_timestamp, last_gesture, log>>

\* C1: cooldown invariant - any two gestures that detect_gesture returned,
\* at non-decreasing times, are at least gesture_cooldown (0.8 s) apart; so
\* of two labelled frames less than 0.8 s apart at most one is emitted.
C1_CooldownInvariant ==
    \A i, j \in DOMAIN emitted :
        i < j => emitted[j][1] - emitted[i][1] >= GestureCooldown

\* a labelled frame strictly later than, and less than 0.8 s after, an
\* emitted one has just been refused
C1_Witness ==
    /\ op = "detect" /\ handDetected /\ raw.gesture # None
    /\ emitted # <<>>
    /\ now > LastEmitTime /\ now - LastEmitTime < GestureCooldown
    /\ ret.gesture = None

\* C2: cooldown release - once a gesture was emitted at time t, a labelled
\* frame (same label or not) at a time later than t + 0.8 s, with no emission
\* in between, is emitted with its label and confidence.
C2_CooldownRelease ==
    [][ (RawGestureFrame /\ emitted # <<>> /\ clock > LastEmitTime + GestureCooldown)
        => (ret'.gesture = raw'.gesture /\ ret'.confidence = raw'.confidence) ]_vars

\* a second emission more than 0.8 s after the first one
C2_Witness ==
    /\ op = "detect" /\ ret.gesture # None
    /\ Len(emitted) = 2
    /\ emitted[2][1] > emitted[1][1] + GestureCooldown

\* C3: first-ever emission - on a fresh detector the first labelled frame is
\* emitted whatever the clock shows: whenever a labelled frame has just been
\* processed, a gesture has been emitted (by this call or an earlier one).
C3_FirstFrameEmits ==
    (op = "detect" /\ handDetected /\ raw.gesture # None) => emitted # <<>>

\* C4: the cooldown is global - less than 0.8 s after an emission of label A
\* a frame with another label B is suppressed like a repeat of A: nothing is
\* returned and the cooldown state stays as it is.
C4_GlobalCooldown ==
    [][ (RawGestureFrame /\ emitted # <<>> /\ raw'.gesture # LastEmitLabel
           /\ clock - LastEmitTime < GestureCooldown)
        => (ret'.gesture = None /\ ret'.confidence = 0 /\ CooldownStateUnchanged) ]_vars

\* a frame with another label than the one emitted less than 0.8 s before
\* has just been refused
C4_Witness ==
    /\ op = "detect" /\ handDetected /\ raw.gesture \in Labels
    /\ emitted # <<>> /\ raw.gesture # LastEmitLabel
    /\ now - LastEmitTime < GestureCooldown
    /\ ret.gesture = None /\ last_gesture = LastEmitLabel

\* C5: a suppressed frame (labelled, less than 0.8 s after gesture_timestamp)
\* returns no gesture with confidence 0, leaves gesture_timestamp and
\* last_gesture as they are and writes no log row.
C5_SuppressedFrame ==
    [][ (RawGestureFrame /\ clock - gesture_timestamp < GestureCooldown)
        => (ret'.gesture = None /\ ret'.confidence = 0 /\ CooldownStateUnchanged) ]_vars

\* a labelled frame was suppressed some time after the emission that opened
\* the window, and the window still starts at that emission
C5_Witness ==
    /\ op = "detect" /\ handDetected /\ raw.gesture # None /\ ret.gesture = None
    /\ Len(log) = 1 /\ gesture_timestamp = emitted[1][1]
    /\ now > gesture_timestamp /\ now - gesture_timestamp < GestureCooldown

\* C6: a frame with a hand that the classifier gives no label returns no
\* gesture with confidence 0, in or out of the cooldown window, and leaves
\* gesture_timestamp, last_gesture and the log as they are.
C6_UnlabelledHand ==
    [][ (op' = "detect" /\ handDetected' /\ raw'.gesture = None)
        => (ret'.gesture = None /\ ret'.confidence = 0 /\ ~ret'.raised
              /\ CooldownStateUnchanged) ]_vars

\* an unlabelled hand has been processed after the cooldown had elapsed
C6_Witness ==
    /\ op = "detect" /\ handDetected /\ raw.gesture = None
    /\ emitted # <<>>
    /\ now - gesture_timestamp >= GestureCooldown

\* C7: emissions and only emissions record themselves - the log rows are
\* exactly the gestures returned, in order, each with its label, confidence
\* and success = True; gesture_timestamp and last_gesture are the time and the
\* label of the most recent returned gesture, and the initial values before.
C7_EmissionsRecorded ==
    /\ Len(log) = Len(emitted)
    /\ \A i \in DOMAIN emitted : log[i] = <<emitted[i][2], emitted[i][3], TRUE>>
    /\ emitted = <<>> => gesture_timestamp = 0 /\ last_gesture = None
    /\ emitted # <<>> => gesture_timestamp = LastEmitTime /\ last_gesture = LastEmitLabel

\* two gestures have been returned, then a frame that returned none
C7_Witness ==
    /\ Len(emitted) = 2 /\ Len(log) = 2
    /\ op = "detect" /\ ret.gesture = None

\* C8: a frame without hand landmarks returns (None, None, 0), raises nothing,
\* writes no log row and leaves gesture_timestamp and last_gesture as they are.
C8_NoHand ==
    [][ (op' = "detect" /\ ~handDetected')
        => (ret' = Returned(None, FALSE, 0) /\ CooldownStateUnchanged) ]_vars

\* a frame without a hand inside the cooldown window of an emission
C8_Witness ==
    /\ op = "detect" /\ ~handDetected
    /\ emitted # <<>> /\ now - gesture_timestamp < GestureCooldown
    /\ ret = Returned(None, FALSE, 0)

----------------------------------------------------------------------------
(* Properties of the classifier (checked under SpecClassify).              *)

\* C9: malformed input - a landmark sequence whose length is not 21 is
\* refused: the classifier returns (None, 0) and raises nothing.
C9_MalformedRefused ==
    (op = "classify" /\ Len(landmarks) # 21) => cres = NoGesture

\* the confidence that goes with each label
ConfidenceOf(g) ==
    CASE g \in {"right", "left", "ok"} -> 85
      [] g \in {"two_fingers", "palm"} -> 90
      [] OTHER -> 0

\* C10: totality - on 21 points the classifier raises nothing and returns one
\* of right, left, two_fingers, ok, palm, None with the confidence of that
\* label (85, 85, 90, 85, 90, 0 hundredths): non-zero exactly for a label.
C10_Totality ==
    (op = "classify" /\ Len(landmarks) = 21)
        => /\ ~cres.raised
           /\ cres.gesture \in Labels \cup {None}
           /\ cres.confidence = ConfidenceOf(cres.gesture)
           /\ cres.confidence \in 0..100
           /\ (cres.confidence # 0) <=> (cres.gesture # None)

\* 21 points that match no rule have been classified
C10_Witness ==
    /\ op = "classify" /\ Len(landmarks) = 21
    /\ cres = NoGesture
    /\ is_finger_extended(landmarks, 8) /\ ~is_finger_extended(landmarks, 12)

----------------------------------------------------------------------------
(* The rules of the classifier (checked under SpecClassify).  The claims   *)
(* are stated on the coordinates of the classified hand.                   *)

\* a hand of 21 points has just been classified
ClassifiedHand == op = "classify" /\ Len(landmarks) = 21
Ext(k) == is_finger_extended(landmarks, k)
\* x and y of the vector wrist -> index tip, and the squared planar distance
\* between thumb tip and index tip, in units of 1/25
IndexDx == landmarks[9][1] - landmarks[1][1]
IndexDy == landmarks[9][2] - landmarks[1][2]
ThumbIndexSq ==
    (landmarks[5][1] - landmarks[9][1]) * (landmarks[5][1] - landmarks[9][1])
      + (landmarks[5][2] - landmarks[9][2]) * (landmarks[5][2] - landmarks[9][2])
\* x / sqrt(x^2 + y^2) > 1/2 and < -1/2
XOverHalf == IndexDx > 0 /\ 3 * IndexDx * IndexDx > IndexDy * IndexDy
XUnderMinusHalf == IndexDx < 0 /\ 3 * IndexDx * IndexDx > IndexDy * IndexDy

\* C11: pointing rule - with the index extended and middle, ring and pinky
\* not extended (thumb free) the result is right/0.85 when the x component of
\* the unit wrist -> index-tip direction is > 0.5, left/0.85 when it is
\* < -0.5, and no gesture when it lies in [-0.5, 0.5].
C11_PointingRule ==
    (ClassifiedHand /\ Ext(8) /\ ~Ext(12) /\ ~Ext(16) /\ ~Ext(20))
        => cres = IF XOverHalf THEN Result("right", 85)
                  ELSE IF XUnderMinusHalf THEN Result("left", 85)
                  ELSE NoGesture

\* an index pointing up, alone, with the thumb extended: no gesture
C11_Witness ==
    /\ ClassifiedHand /\ Ext(8) /\ ~Ext(12) /\ ~Ext(16) /\ ~Ext(20) /\ Ext(4)
    /\ ~XOverHalf /\ ~XUnderMinusHalf
    /\ cres = NoGesture

\* C12: two-fingers rule - index and middle extended, ring and pinky not
\* extended give two_fingers/0.9 whatever the thumb, the pointing direction
\* and the thumb-tip/index-tip distance.
C12_TwoFingersRule ==
    (ClassifiedHand /\ Ext(8) /\ Ext(12) /\ ~Ext(16) /\ ~Ext(20))
        => cres = Result("two_fingers", 90)

\* two fingers with the index pointing right and the thumb extended
C12_Witness ==
    /\ ClassifiedHand /\ Ext(8) /\ Ext(12) /\ ~Ext(16) /\ ~Ext(20)
    /\ Ext(4) /\ XOverHalf
    /\ cres.gesture = "two_fingers"

\* C13: OK rule and its precedence - middle, ring and pinky extended and
\* thumb tip less than 0.08 (2 units) from the index tip give ok/0.85 whatever
\* thumb and index; so does a hand with all five fingers extended.
C13_OkRule ==
    (ClassifiedHand /\ Ext(12) /\ Ext(16) /\ Ext(20) /\ ThumbIndexSq < 4)
        => cres = Result("ok", 85)

\* all five fingers extended, thumb tip touching the index tip: ok, not palm
C13_Witness ==
    /\ ClassifiedHand /\ Ext(4) /\ Ext(8) /\ Ext(12) /\ Ext(16) /\ Ext(20)
    /\ ThumbIndexSq < 4
    /\ cres.gesture = "ok"

\* C14: palm rule - all five fingers extended and thumb tip at least 0.08 from
\* the index tip give palm/0.9, and palm is returned for no other hand than
\* one with all five fingers extended.
C14_PalmRule ==
    ClassifiedHand
        => /\ (Ext(4) /\ Ext(8) /\ Ext(12) /\ Ext(16) /\ Ext(20) /\ ThumbIndexSq >= 4)
                => cres = Result("palm", 90)
           /\ cres.gesture = "palm"
                => (Ext(4) /\ Ext(8) /\ Ext(12) /\ Ext(16) /\ Ext(20))

\* an open hand whose thumb tip is just off the index tip (squared distance 5)
C14_Witness ==
    /\ ClassifiedHand /\ cres = Result("palm", 90)
    /\ ThumbIndexSq = 5

----------------------------------------------------------------------------
(* The guards of the rules against each other (checked under SpecRules).   *)

RuleNames == {"right", "left", "two_fingers", "ok", "palm"}
\* the guard of a rule on the input handed to the rule chain
GuardOf(rule, i) ==
    CASE rule = "right" ->
           GuardRight(i.index, i.middle, i.ring, i.pinky, XRight(i.dirx))
      [] rule = "left" ->
           GuardLeft(i.index, i.middle, i.ring, i.pinky, XLeft(i.dirx))
      [] rule = "two_fingers" ->
           GuardTwoFingers(i.index, i.middle, i.ring, i.pinky)
      [] rule = "ok" ->
           GuardOk(i.middle, i.ring, i.pinky, DistClose(i.dist))
      [] rule = "palm" ->
           GuardPalm(i.thumb, i.index, i.middle, i.ring, i.pinky)
\* the five rules in every order, and the label the first matching rule of an
\* order gives
Orders == { o \in [1..5 -> RuleNames] : \A a, b \in 1..5 : o[a] = o[b] => a = b }
OkBeforePalm(o) == \E a, b \in 1..5 : a < b /\ o[a] = "ok" /\ o[b] = "palm"
EvalInOrder(o, i) ==
    LET hits == { k \in 1..5 : GuardOf(o[k], i) }
    IN  IF hits = {} THEN NoGesture
        ELSE LET first == CHOOSE k \in hits : \A j \in hits : k <= j
             IN  Result(o[first], ConfidenceOf(o[first]))

\* C15: guard disjointness - no combination of the five flags, the direction
\* x and the thumb/index distance satisfies the guards of two rules other than
\* the pair (ok, palm), and the rules taken in any order with ok before palm
\* give what the code's order right, left, two_fingers, ok, palm gives.
C15_GuardsDisjoint ==
    op = "rules"
        => /\ \A a, b \in RuleNames :
                (a # b /\ GuardOf(a, rin) /\ GuardOf(b, rin)) => {a, b} = {"ok", "palm"}
           /\ \A o \in Orders : OkBeforePalm(o) => EvalInOrder(o, rin) = cres

\* the one overlap: all five fingers extended and thumb close to the index
C15_Witness ==
    /\ op = "rules"
    /\ GuardOf("ok", rin) /\ GuardOf("palm", rin)
    /\ cres = Result("ok", 85)

----------------------------------------------------------------------------
(* The finger extension test (checked under SpecClassify).  The claims are *)
(* stated on the coordinates of the hand in landmarks.                     *)

\* planar coordinates of landmark k, squared planar distance, dot product of
\* the vectors k1 -> k2 and k3 -> k4
PX(k) == landmarks[k + 1][1]
PY(k) == landmarks[k + 1][2]
DistSq(k1, k2) == (PX(k1) - PX(k2)) * (PX(k1) - PX(k2)) + (PY(k1) - PY(k2)) * (PY(k1) - PY(k2))
DotOf(k1, k2, k3, k4) ==
    (PX(k2) - PX(k1)) * (PX(k4) - PX(k3)) + (PY(k2) - PY(k1)) * (PY(k4) - PY(k3))
\* the table of the claim: tip -> (mid, base)
MidOf(tip) == CASE tip = 4 -> 3 [] tip = 8 -> 7 [] tip = 12 -> 11 [] tip = 16 -> 15 [] tip = 20 -> 19
BaseOf(tip) == CASE tip = 4 -> 2 [] tip = 8 -> 5 [] tip = 12 -> 9 [] tip = 16 -> 13 [] tip = 20 -> 17
\* distance tip-wrist > 0.9 x distance mid-wrist
TipFarEnough(tip) == 100 * DistSq(tip, 0) > 81 * DistSq(MidOf(tip), 0)
\* cosine of the angle between wrist -> base and base -> tip > 0.3 (0 for a
\* vector of length 0)
PointsOutward(tip) ==
    /\ DotOf(0, BaseOf(tip), BaseOf(tip), tip) > 0
    /\ 100 * DotOf(0, BaseOf(tip), BaseOf(tip), tip) * DotOf(0, BaseOf(tip), BaseOf(tip), tip)
         > 9 * DistSq(BaseOf(tip), 0) * DistSq(tip, BaseOf(tip))
\* the hand with other depths: every z replaced by dz plus the landmark's index
WithDepths(lms, dz) == [k \in DOMAIN lms |-> <<lms[k][1], lms[k][2], dz + k>>]

\* C16: finger extension test - for the tips 4, 8, 12, 16, 20 with (mid, base)
\* joints (3,2), (7,5), (11,9), (15,13), (19,17) the result is true iff tip-wrist
\* > 0.9 x mid-wrist and the unit vectors wrist->base, base->tip have a dot
\* product > 0.3; for any other index it is false; z has no influence.
C16_ExtensionTest ==
    op = "extended"
        => /\ ext.extended = IF ext.finger \in {4, 8, 12, 16, 20}
                             THEN TipFarEnough(ext.finger) /\ PointsOutward(ext.finger)
                             ELSE FALSE
           /\ \A dz \in {-7, 0, 5} :
                is_finger_extended(WithDepths(landmarks, dz), ext.finger) = ext.extended

\* a middle finger that points outward but whose tip is nearer to the wrist
\* than 0.9 x its mid joint: not extended
C16_Witness ==
    /\ op = "extended" /\ ext.finger = 12
    /\ PointsOutward(12) /\ ~TipFarEnough(12)
    /\ ~ext.extended

\* C17: degenerate geometry - a finger whose base joint lies on the wrist or
\* whose tip lies on its base joint (in the plane) is reported not extended,
\* and a hand whose index tip lies on the wrist is classified without error
\* as neither right nor left.
C17_DegenerateGeometry ==
    /\ (op = "extended" /\ ext.finger \in {4, 8, 12, 16, 20}
          /\ (DistSq(BaseOf(ext.finger), 0) = 0 \/ DistSq(ext.finger, BaseOf(ext.finger)) = 0))
         => ~ext.extended
    /\ (ClassifiedHand /\ DistSq(8, 0) = 0)
         => (~cres.raised /\ cres.gesture \notin {"right", "left"})

\* a pinky whose tip lies on its base joint, far enough from the wrist for
\* the distance criterion: not extended
C17_Witness ==
    /\ op = "extended" /\ ext.finger = 20
    /\ DistSq(20, 17) = 0 /\ TipFarEnough(20)
    /\ ~ext.extended

\* C18: finger-extension monotonicity - an extended finger stays extended when
\* its tip is replaced by a point strictly farther from the base joint in the
\* same base -> tip direction, all other landmarks fixed.
C18_Monotonicity ==
    (op = "moved" /\ ext.was) => ext.extended

\* an extended index whose tip was moved outward and is still extended
C18_Witness ==
    /\ op = "moved" /\ ext.finger = 8
    /\ ext.was /\ ext.extended

----------------------------------------------------------------------------
(* The classifier inside the detector (checked under Spec).                *)

----------------------------------------------------------------------------
(* Two threads in detect_gesture (checked under SpecConcurrent).           *)

\* two emissions whose times are less than gesture_cooldown apart
DoubleEmission(i, j) ==
    /\ emitBy[j].time - emitBy[i].time < GestureCooldown
    /\ emitBy[i].time - emitBy[j].time < GestureCooldown
\* the k-th emitter passed the cooldown test before an earlier emitter wrote
\* gesture_timestamp: its test and its write were not atomic
Raced(k) == emitBy[k].seen < k - 1

\* C20: without mutual exclusion the cooldown test and the write of
\* gesture_timestamp are not atomic, and two threads can both emit inside one
\* cooldown window; every such double emission comes after a thread passed
\* the test before another thread's write, and the emissions of one thread
\* calling alone are never less than the cooldown apart.
C20_DoubleEmitOnlyByRace ==
    /\ \A i, j \in DOMAIN emitBy :
          (i < j /\ DoubleEmission(i, j)) => \E k \in 1..j : Raced(k)
    /\ (\A k \in DOMAIN emitBy : emitBy[k].thread = 1)
          => \A i, j \in DOMAIN emitBy : i < j => ~DoubleEmission(i, j)

\* both threads have returned a gesture for frames taken at the same time
C20_Witness ==
    /\ Len(emitBy) = 2 /\ Len(emitted) = 2
    /\ emitBy[1].thread # emitBy[2].thread
    /\ DoubleEmission(1, 2)
    /\ \A t \in Threads : thr[t].pc = "idle"

----------------------------------------------------------------------------
(* The boundary of the cooldown (checked under Spec).                      *)

\* C21: the suppression test is strict - a frame with a raw label is emitted
\* exactly when its time minus gesture_timestamp is at least gesture_cooldown:
\* at a difference of exactly 0.8 s it is emitted, at any smaller difference
\* it is suppressed.
C21_StrictBoundary ==
    [][ RawGestureFrame
        => /\ (ret'.gesture = raw'.gesture)
                <=> (now' - gesture_timestamp >= GestureCooldown)
           /\ (ret'.gesture = None)
                <=> (now' - gesture_timestamp < GestureCooldown) ]_vars

\* a gesture emitted exactly 0.8 s after the previous emission
C21_Witness ==
    /\ op = "detect" /\ handDetected /\ ret.gesture = raw.gesture
    /\ raw.gesture # None
    /\ Len(emitted) >= 2
    /\ now = emitted[Len(emitted) - 1][1] + GestureCooldown
    /\ gesture_timestamp = now

----------------------------------------------------------------------------
(* A held gesture (checked under SpecLive).                                *)

\* from some point on every frame shows a hand with the raw label g
HeldFromSomePoint(g) == <>[](op = "detect" => raw.gesture = g)
\* the last emission is less than gesture_cooldown before the end of the
\* time the model covers
EmittedUpToTheEnd ==
    emitted # <<>> /\ LastEmitTime + GestureCooldown > MaxTime

\* C28: a held gesture keeps firing - when from some point on every frame
\* carries the same raw label and time keeps growing, emissions never stop
\* (up to the last cooldown window of the time covered), and a held frame is
\* refused only while less than 0.8 s have passed since gesture_timestamp, so
\* each emission happens at the first frame that is late enough.
C28_HeldKeepsFiring ==
    /\ \A g \in Labels : HeldFromSomePoint(g) => <>[]EmittedUpToTheEnd
    /\ [][ (RawGestureFrame /\ ret'.gesture = None)
           => clock - gesture_timestamp < GestureCooldown ]_vars

\* the held label has been emitted a second time, at the first frame that is
\* late enough, after a refused frame of the same label
C28_Witness ==
    /\ op = "detect" /\ ret.gesture # None
    /\ Len(emitted) = 2
    /\ emitted[1][2] = emitted[2][2]
    /\ emitted[2][1] = emitted[1][1] + GestureCooldown + 1
    /\ EmittedUpToTheEnd

----------------------------------------------------------------------------
(* The pages of the open document (checked under SpecPdf).                 *)

\* a reader is there and the document has at least one page
PdfOpen == pdf.current_pdf # NoFile /\ pdf.total_pages >= 1
PageInRange == 0 <= pdf.current_page /\ pdf.current_page < pdf.total_pages
\* the step is a navigate_pdf call that would leave the pages of the
\* document, or that finds no document open
NavigateOutside ==
    /\ call'.name = "navigate_pdf"
    /\ \/ pdf.current_pdf = NoFile
       \/ pdf.current_page + call'.arg < 0
       \/ pdf.current_page + call'.arg >= pdf.total_pages

\* C30: page bounds - after any sequence of open_pdf, navigate_pdf and
\* close_pdf calls, while a document with at least one page is open the
\* current page is within 0 .. total_pages - 1; a navigate_pdf call that would
\* leave this range, or that is made with no document open, returns False and
\* leaves the page where it is (no wrap-around), and any other navigate_pdf
\* call moves the page by one.
C30_PageBounds ==
    /\ [](PdfOpen => PageInRange)
    /\ [][ NavigateOutside
           => (call'.ret = FALSE /\ pdf' = pdf) ]_vars
    /\ [][ (call'.name = "navigate_pdf" /\ ~NavigateOutside)
           => (call'.ret = TRUE
               /\ pdf'.current_page = pdf.current_page + call'.arg) ]_vars

\* on the last page of a two-page document a step forward has been refused
C30_Witness ==
    /\ call = [name |-> "navigate_pdf", arg |-> 1, ret |-> FALSE]
    /\ PdfOpen
    /\ pdf.total_pages = 2 /\ pdf.current_page = 1

----------------------------------------------------------------------------
(* Leaving the application by gesture (checked under SpecLoop).            *)

LastHandled == handled[Len(handled)]
\* the step hands a gesture to handle_gesture
Handles(gesture, view) ==
    /\ Len(handled') = Len(handled) + 1
    /\ handled'[Len(handled')][1] = gesture
    /\ handled'[Len(handled')][2] = view

\* C22: leaving by gesture needs a confirmation - running is set to False by
\* a gesture only when a palm arrives in the menu while the exit modal is
\* showing, and the modal comes up only by a palm in the menu with the modal
\* hidden; so once the application has ended by gesture the last two gestures
\* handled were palms in the menu, at least 0.8 s apart, and a palm in the
\* document view never ends it.
C22_ExitNeedsConfirmation ==
    /\ [](app.exit_by = "gesture"
          => /\ Len(handled) >= 2
             /\ LastHandled[1] = "palm" /\ LastHandled[2] = "menu"
             /\ handled[Len(handled) - 1][1] = "palm"
             /\ handled[Len(handled) - 1][2] = "menu"
             /\ LastHandled[3] - handled[Len(handled) - 1][3] >= GestureCooldown)
    /\ [][ (app.running /\ ~app'.running /\ app'.exit_by = "gesture")
           => (Handles("palm", "menu") /\ ui.show_exit_modal) ]_vars
    /\ [][ (~ui.show_exit_modal /\ ui'.show_exit_modal)
           => Handles("palm", "menu") ]_vars
    /\ [][ Handles("palm", "document") => app'.running = app.running ]_vars

\* the application ended by gesture at the second attempt: the first palm was
\* cancelled by another gesture
C22_Witness ==
    /\ app.exit_by = "gesture" /\ ~app.running
    /\ Len(handled) = 4
    /\ handled[1][1] = "palm" /\ handled[2][1] # "palm"

----------------------------------------------------------------------------
(* The exit modal, the document view and the generation threads (checked   *)
(* under SpecApp).                                                         *)

\* C23: cancelling the exit - while the exit modal is showing, the handling
\* of any gesture other than palm only hides the modal: the selected index,
\* the current view, the open document, running and ollama_running stay as
\* they are and no generation thread is started.
C23_ModalCancel ==
    [][ \A g \in Labels \ {"palm"} :
           (ui.show_exit_modal /\ handle_gesture(g))
           => /\ ui' = [ui EXCEPT !.show_exit_modal = FALSE]
              /\ pdf' = pdf
              /\ app' = app
              /\ workers' = workers ]_vars

\* the modal has just been cancelled while a generation was running and the
\* list had several files, the second of them selected
C23_Witness ==
    /\ call.name = "hide_exit_confirmation"
    /\ ~ui.show_exit_modal
    /\ app.ollama_running
    /\ Len(pdf.pdf_files) >= 2 /\ pdf.current_file_index = 1

\* C29: the exit modal exists only in the menu - whenever show_exit_modal is
\* True the current view is 'menu', and the handling of a gesture while the
\* modal is showing neither changes the view nor the open document.
C29_ModalOnlyInMenu ==
    /\ [](ui.show_exit_modal => ui.current_view = "menu")
    /\ [][ (ui.show_exit_modal /\ \E g \in Labels : handle_gesture(g))
           => /\ ui'.current_view = ui.current_view
              /\ pdf'.current_pdf = pdf.current_pdf ]_vars

\* the modal has come up in the menu while a generation thread holds a
\* document open
C29_Witness ==
    /\ call.name = "show_exit_confirmation"
    /\ ui.show_exit_modal /\ ui.current_view = "menu"
    /\ pdf.current_pdf # NoFile

Alive(w) == workers[w].pc # "none"
NoneAlive == \A w \in WorkerIds : ~Alive(w)
\* the step is the end of thread w
Ends(w) == Alive(w) /\ workers'[w].pc = "none"

\* C26: every generation releases the flag - whichever way
\* generate_with_ollama ends, ollama_running is False when its thread ends;
\* it is False whenever no thread is alive, and a two_fingers gesture handled
\* then (outside the modal, with a file to work on) starts a new generation.
C26_FlagReleased ==
    /\ [][ \A w \in WorkerIds : Ends(w) => ~app'.ollama_running ]_vars
    /\ [](NoneAlive => ~app.ollama_running)
    /\ [][ (/\ NoneAlive /\ app.started < MaxWorkers
            /\ ~ui.show_exit_modal
            /\ ui.current_view = "document" \/ pdf.pdf_files # <<>>
            /\ handle_gesture("two_fingers"))
           => /\ app'.ollama_running
              /\ app'.started = app.started + 1
              /\ workers'[app'.started].pc = "start" ]_vars

\* a first generation has written its files and ended, and a second one has
\* been started
C26_Witness ==
    /\ app.started = 2
    /\ ~Alive(1) /\ workers[2].pc = "start"
    /\ app.ollama_running
    /\ written # {}

\* C24: one palm leaves the document view - whenever the view is 'document'
\* a document is open, so that close_pdf succeeds and the handling of a palm
\* brings the view back to 'menu', whatever the generation thread does.
C24_PalmAlwaysReturns ==
    /\ [](ui.current_view = "document" => pdf.current_pdf # NoFile)
    /\ [][ (ui.current_view = "document" /\ handle_gesture("palm"))
           => ui'.current_view = "menu" ]_vars

\* C25: one generation at a time - ollama_running is True whenever a
\* generate_with_ollama thread is alive, at most one such thread is alive,
\* and a two_fingers gesture handled while ollama_running is True starts no
\* thread.
C25_OneGeneration ==
    /\ []((\E w \in WorkerIds : Alive(w)) => app.ollama_running)
    /\ [](Cardinality({ w \in WorkerIds : Alive(w) }) <= 1)
    /\ [][ (app.ollama_running /\ handle_gesture("two_fingers"))
           => (app'.started = app.started /\ workers' = workers) ]_vars

\* C27: generated files match their source - every pair of files written by
\* generate_with_ollama is named after the file whose text was extracted.
C27_FilesMatchSource == \A f \in written : f[1] = f[2]

====
